---- MODULE Spec2Model ----
(***************************************************************************)
(* Model of the dimcli session / query client (src/dimcli/dimensions.py): *)
(* class Dsl (construction, _login, query) and class Result (the wrapper  *)
(* around the decoded JSON body).                                          *)
(*                                                                         *)
(* A Python dict is an insertion-ordered sequence of [k, v] pairs with     *)
(* distinct keys.  A JSON value is a tagged record [type, n, ref].  A      *)
(* recursive call "return self.query(q, ...)" is a tail call: the frame    *)
(* arguments q and retry are replaced and the next step posts again.       *)
(***************************************************************************)
EXTENDS Integers, Sequences, FiniteSets, TLC

\* ---------------------------------------------------------------- bounds
MaxReq == 4      \* DSL requests explored within one query call
MaxRetry == 2    \* largest retry budget a caller passes
MaxKeys == 2     \* top-level keys of a payload handed to Result
MaxPage == 3     \* largest small page size of a loop query
MaxRecords == 7  \* largest small record total of a loop query
MaxRuns == 3     \* magic commands run in one notebook session
MaxLen == 4      \* longest sequence handed to chunks_of
MaxSize == 3     \* largest chunk size handed to chunks_of

\* --------------------------------------------------------- JSON values
JList(n) == [type |-> "list", n |-> n, ref |-> ""]
JDict(n) == [type |-> "dict", n |-> n, ref |-> ""]
JNum(n) == [type |-> "num", n |-> n, ref |-> ""]
PyFalse == [type |-> "bool", n |-> 0, ref |-> ""]

Values == {JList(2), JDict(1), JNum(5)}

\* dict helpers: "k in d" and "d[k]"
HasKey(d, k) == \E i \in 1..Len(d) : d[i].k = k
Get(d, k) == d[CHOOSE i \in 1..Len(d) : d[i].k = k].v

\* ------------------------------------------------------ server answers
Statuses == {200, 400, 500, 429, 403, 503, 404, 204}

BodyPubs == << [k |-> "publications", v |-> JList(2)], [k |-> "_stats", v |-> JDict(1)] >>
BodyErr == << [k |-> "errors", v |-> JDict(1)] >>
BodyEmpty == << >>
Bodies == {BodyPubs, BodyErr, BodyEmpty}

Tokens == {"t1", "t2"}
TokenBody(t) == << [k |-> "token", v |-> t] >>
LoginResponses ==
    {[status |-> s, body |-> TokenBody(t)] : s \in {200, 401}, t \in Tokens}
      \cup {[status |-> s, body |-> << >>] : s \in {200, 401}}
NoResp == [status |-> 0, body |-> << >>]

Queries == {"search publications return publications", "describe schema"}

\* requests.Response.raise_for_status(): raises HTTPError for 4xx and 5xx
RaiseForStatus(status) == status >= 400 /\ status < 600

\* time.sleep(30)
SleepSecs == 30

\* -------------------------------------------------- credential sources
DefaultEndpoint == "https://app.dimensions.ai"
FullSection == << [k |-> "url", v |-> "https://cfg.example"],
                  [k |-> "login", v |-> "cfguser"],
                  [k |-> "password", v |-> "cfgpw"] >>
PartialSection == << [k |-> "url", v |-> "https://cfg.example"],
                     [k |-> "login", v |-> "cfguser"] >>
\* the content of dsl.ini as far as one instance name is concerned
Configs == { [hasSection |-> FALSE, section |-> << >>],
             [hasSection |-> TRUE, section |-> PartialSection],
             [hasSection |-> TRUE, section |-> FullSection] }

VARIABLES
    pc,         \* "start" | "failed" (constructor raised) | "idle" | "query"
    url, username, password,   \* Dsl._url, Dsl._username, Dsl._password
    headers,    \* Dsl._headers: << >> while unset, else <<"JWT ", token>>
    issued,     \* token of the latest auth response the server granted
    q, retry,   \* arguments of the current query frame
    q0, retry0, \* arguments of the top-level query call
    hist,       \* statuses received by this call, in order
    lastBody,   \* decoded body of the last DSL response
    nReq,       \* DSL requests posted by this call
    dslSent,    \* the last DSL request posted
    authSent,   \* the last auth request posted
    loginResp,  \* the auth response consumed by the last step, or NoResp
    ctor,       \* the constructor arguments of the last step, or NoCtor
    nLogins,    \* auth requests posted by this operation
    nSleeps, slept,   \* time.sleep calls of this call and their total
    outcome,    \* "none" | "result" | "raised" | "returned_none"
    result,     \* the Result object returned
    error,      \* the exception raised
    access,     \* the last access made on the Result
    \* loop executor (PaginationState and its surroundings)
    lpc,        \* "idle" | "running" | "returned" | "raised"
    pageSize,   \* the fixed page size
    srvTotal,   \* records the server holds for the query
    declared,   \* whether the server declares the total
    offset,     \* offset of the next page request
    accumulated,  \* pages received so far, each [skip, n], in request order
    done,       \* the loop has seen its last page
    requests,   \* page requests issued, each [limit, skip]
    merged,     \* the merged result returned
    \* chunks_of generator
    cPc,        \* "start" | "loop" | "done"
    cData, cSize,   \* arguments
    cPos,       \* elements the iterator has handed out
    cChunk,     \* the local variable chunk
    cOut,       \* chunks yielded so far
    \* notebook magics
    loggedIn,   \* is_logged_in()
    userNs,     \* shell.user_ns["dsl_last_results"]
    runNo,      \* magic runs so far
    run         \* the last magic run

vars == << pc, url, username, password, headers, issued, q, retry, q0, retry0,
           hist, lastBody, nReq, dslSent, authSent, loginResp, ctor, nLogins,
           nSleeps, slept, outcome, result, error, access,
           lpc, pageSize, srvTotal, declared, offset, accumulated, done,
           requests, merged, cPc, cData, cSize, cPos, cChunk, cOut,
           loggedIn, userNs, runNo, run >>

dslVars == << pc, url, username, password, headers, issued, q, retry, q0, retry0,
              hist, lastBody, nReq, dslSent, authSent, loginResp, ctor, nLogins,
              nSleeps, slept, outcome, error >>

loopVars == << lpc, pageSize, srvTotal, declared, offset, accumulated, done,
               requests, merged >>
chunkVars == << cPc, cData, cSize, cPos, cChunk, cOut >>
magicVars == << loggedIn, userNs, runNo, run >>

NoResult == [set |-> FALSE, data |-> << >>]
NoMerged == [set |-> FALSE, pages |-> << >>, count |-> 0]
NoValue == [kind |-> "unset", text |-> "", loop |-> FALSE, run |-> 0]
NoRun == [cmd |-> "", line |-> "", cell |-> "", text |-> "", dispatched |-> "",
          loop |-> FALSE, sent |-> FALSE, raised |-> FALSE, returned |-> NoValue]

\* no loop query, no chunks_of call and no magic in progress
LoopIdle ==
    /\ lpc = "idle" /\ pageSize = 1 /\ srvTotal = 0 /\ declared = FALSE
    /\ offset = 0 /\ accumulated = << >> /\ done = FALSE
    /\ requests = << >> /\ merged = NoMerged
ChunksIdle ==
    /\ cPc = "done" /\ cData = << >> /\ cSize = 1 /\ cPos = 0
    /\ cChunk = << >> /\ cOut = << >>
MagicIdle ==
    /\ loggedIn = FALSE /\ userNs = NoValue /\ runNo = 0 /\ run = NoRun
NoAccess == [op |-> "none", name |-> "", raised |-> FALSE, val |-> PyFalse,
             pairs |-> << >>]
NoDslReq == [url |-> << >>, data |-> "", headers |-> << >>]
NoAuthReq == [url |-> << >>, username |-> "", password |-> ""]
NoCtor == [user |-> "", pw |-> "", endpoint |-> "",
           c |-> [hasSection |-> FALSE, section |-> << >>]]

\* ------------------------------------------------------------- Result
\* Result.__init__: IPython.display.JSON keeps the object it is given
NewResult(data) == [set |-> TRUE, data |-> data]

Ok(v) == [raised |-> FALSE, val |-> v]
Raise == [raised |-> TRUE, val |-> PyFalse]

\* variant of GetItem: plain data[key], which raises KeyError on an absent key
GetItemStrict(data, key) ==
    IF HasKey(data, key) THEN Ok(Get(data, key)) ELSE Raise

\* Result.__getitem__
GetItem(data, key) ==
    IF HasKey(data, key) THEN Ok(Get(data, key)) ELSE Ok(PyFalse)

\* variant of GetAttrHook: the stats renaming left out
GetAttrHookNoRename(data, name) == GetItem(data, name)

\* Result.__getattr__, the hook Python calls when normal lookup fails
GetAttrHook(data, name) ==
    LET name2 == IF name = "stats" THEN "_stats" ELSE name
    IN  GetItem(data, name2)

\* names that normal attribute lookup finds on a Result object
Members == {"data", "keys", "keys_and_count"}
MemberValue(data, name) ==
    IF name = "data" THEN [type |-> "payload", n |-> Len(data), ref |-> name]
    ELSE [type |-> "method", n |-> 0, ref |-> name]

\* the expression  result.name
GetAttr(data, name) ==
    IF name \in Members THEN Ok(MemberValue(data, name))
    ELSE GetAttrHook(data, name)

\* len(v): defined for lists and dicts, TypeError for a number
PyLen(v) ==
    IF v.type \in {"list", "dict"} THEN [raised |-> FALSE, n |-> v.n]
    ELSE [raised |-> TRUE, n |-> 0]

\* Result.keys_and_count: one (key, len(value)) pair for every key, in order
KeysAndCount(data) ==
    IF \E i \in 1..Len(data) : PyLen(data[i].v).raised
    THEN [raised |-> TRUE, pairs |-> << >>]
    ELSE [raised |-> FALSE,
          pairs |-> [i \in 1..Len(data) |-> [k |-> data[i].k, n |-> PyLen(data[i].v).n]]]

\* ---------------------------------------------------------------- Dsl
AuthUrl(u) == << u, "/api/auth.json" >>
DslUrl(u) == << u, "/api/dsl.json" >>

\* variant of ConfigFromFile: a missing profile or field falls back to defaults
ConfigFromFileDefaults(c) ==
    [ok |-> TRUE,
     url |-> IF HasKey(c.section, "url") THEN Get(c.section, "url") ELSE DefaultEndpoint,
     username |-> IF HasKey(c.section, "login") THEN Get(c.section, "login") ELSE "",
     password |-> IF HasKey(c.section, "password") THEN Get(c.section, "password") ELSE ""]

\* Dsl._get_config_from_file followed by the three section lookups
ConfigFromFile(c) ==
    IF ~c.hasSection THEN [ok |-> FALSE, url |-> "", username |-> "", password |-> ""]
    ELSE IF ~HasKey(c.section, "url") \/ ~HasKey(c.section, "login")
            \/ ~HasKey(c.section, "password")
         THEN [ok |-> FALSE, url |-> "", username |-> "", password |-> ""]
         ELSE [ok |-> TRUE, url |-> Get(c.section, "url"),
               username |-> Get(c.section, "login"),
               password |-> Get(c.section, "password")]

\* the credential branch of Dsl.__init__
Resolve(user, pw, endpoint, c) ==
    IF user # "" /\ pw # ""
    THEN [ok |-> TRUE, url |-> endpoint, username |-> user, password |-> pw]
    ELSE ConfigFromFile(c)

\* variant of Login: a token already stored is kept
LoginKeepsOld(resp, old) ==
    IF RaiseForStatus(resp.status)
    THEN [ok |-> FALSE, err |-> "HTTPError", headers |-> old]
    ELSE IF ~HasKey(resp.body, "token")
         THEN [ok |-> FALSE, err |-> "KeyError", headers |-> old]
         ELSE [ok |-> TRUE, err |-> "",
               headers |-> IF old # << >> THEN old
                           ELSE << "JWT ", Get(resp.body, "token") >>]

\* variant of Login: raise_for_status() left out
LoginNoStatusCheck(resp, old) ==
    IF ~HasKey(resp.body, "token")
    THEN [ok |-> FALSE, err |-> "KeyError", headers |-> old]
    ELSE [ok |-> TRUE, err |-> "", headers |-> << "JWT ", Get(resp.body, "token") >>]

\* Dsl._login: the new value of _headers, or the exception
Login(resp, old) ==
    IF RaiseForStatus(resp.status)
    THEN [ok |-> FALSE, err |-> "HTTPError", headers |-> old]
    ELSE IF ~HasKey(resp.body, "token")
         THEN [ok |-> FALSE, err |-> "KeyError", headers |-> old]
         ELSE [ok |-> TRUE, err |-> "", headers |-> << "JWT ", Get(resp.body, "token") >>]

\* what the auth server granted: a success status with a token in the body
Granted(resp, old) ==
    IF resp.status = 200 /\ HasKey(resp.body, "token")
    THEN Get(resp.body, "token") ELSE old

\* variant of Branch: every status below 400 is wrapped as a Result
BranchAnySuccess(status, budget) ==
    IF status = 429 THEN "sleep_requery"
    ELSE IF status = 403 THEN "relogin"
    ELSE IF status \in {200, 400, 500} \/ status < 400 THEN "result"
    ELSE IF budget > 0 THEN "retry"
    ELSE "raise"

\* variant of Branch: 500 handled as an unexpected status
BranchRetries500(status, budget) ==
    IF status = 429 THEN "sleep_requery"
    ELSE IF status = 403 THEN "relogin"
    ELSE IF status \in {200, 400} THEN "result"
    ELSE IF budget > 0 THEN "retry"
    ELSE "raise"

\* the if / elif chain of Dsl.query
Branch(status, budget) ==
    IF status = 429 THEN "sleep_requery"
    ELSE IF status = 403 THEN "relogin"
    ELSE IF status \in {200, 400, 500} THEN "result"
    ELSE IF budget > 0 THEN "retry"
    ELSE "raise"

Init ==
    /\ pc = "start"
    /\ url = "" /\ username = "" /\ password = ""
    /\ headers = << >>
    /\ issued = ""
    /\ q = "" /\ retry = 0 /\ q0 = "" /\ retry0 = 0
    /\ hist = << >>
    /\ lastBody = << >>
    /\ nReq = 0
    /\ dslSent = NoDslReq
    /\ authSent = NoAuthReq
    /\ loginResp = NoResp
    /\ ctor = NoCtor
    /\ nLogins = 0
    /\ nSleeps = 0 /\ slept = 0
    /\ outcome = "none"
    /\ result = NoResult
    /\ error = ""
    /\ access = NoAccess
    /\ LoopIdle /\ ChunksIdle /\ MagicIdle

\* Dsl.__init__
Construct(user, pw, endpoint, c, resp) ==
    /\ pc \in {"start", "failed"}
    /\ ctor' = [user |-> user, pw |-> pw, endpoint |-> endpoint, c |-> c]
    /\ LET cr == Resolve(user, pw, endpoint, c)
           L == Login(resp, << >>)
       IN  IF ~cr.ok
           THEN /\ pc' = "failed"
                /\ error' = "KeyError"
                /\ nLogins' = 0
                /\ loginResp' = NoResp
                /\ UNCHANGED << url, username, password, headers, issued, authSent >>
           ELSE /\ nLogins' = 1
                /\ authSent' = [url |-> AuthUrl(cr.url), username |-> cr.username,
                                password |-> cr.password]
                /\ loginResp' = resp
                /\ issued' = Granted(resp, issued)
                /\ IF L.ok
                   THEN /\ pc' = "idle"
                        /\ url' = cr.url
                        /\ username' = cr.username
                        /\ password' = cr.password
                        /\ headers' = L.headers
                        /\ error' = ""
                   ELSE /\ pc' = "failed"
                        /\ error' = L.err
                        /\ UNCHANGED << url, username, password, headers >>
    /\ UNCHANGED << q, retry, q0, retry0, hist, lastBody, nReq, dslSent,
                    nSleeps, slept, outcome, result, access >>
    /\ UNCHANGED << loopVars, chunkVars, magicVars >>

\* a caller enters Dsl.query(qq, retry=r)
QueryCall(qq, r) ==
    /\ pc = "idle"
    /\ pc' = "query"
    /\ q' = qq /\ retry' = r /\ q0' = qq /\ retry0' = r
    /\ hist' = << >>
    /\ lastBody' = << >>
    /\ nReq' = 0 /\ nLogins' = 0 /\ nSleeps' = 0 /\ slept' = 0
    /\ dslSent' = NoDslReq
    /\ loginResp' = NoResp
    /\ ctor' = NoCtor
    /\ outcome' = "none"
    /\ result' = NoResult
    /\ error' = ""
    /\ access' = NoAccess
    /\ UNCHANGED << url, username, password, headers, issued, authSent >>
    /\ UNCHANGED << loopVars, chunkVars, magicVars >>

\* requests.post(dsl.json, data=q, headers=self._headers) answered by (s, body)
Post(s, body) ==
    /\ pc = "query"
    /\ nReq < MaxReq
    /\ nReq' = nReq + 1
    /\ dslSent' = [url |-> DslUrl(url), data |-> q, headers |-> headers]
    /\ hist' = Append(hist, s)
    /\ lastBody' = body
    /\ UNCHANGED ctor
    /\ UNCHANGED << loopVars, chunkVars, magicVars >>

\* variant of Query429: logs in again before the retry
Query429Relogins(s, body) ==
    /\ Branch(s, retry) = "sleep_requery"
    /\ Post(s, body)
    /\ nSleeps' = nSleeps + 1
    /\ slept' = slept + SleepSecs
    /\ q' = q
    /\ retry' = 0
    /\ pc' = "query"
    /\ loginResp' = NoResp
    /\ headers' = << "JWT ", "t2" >>
    /\ issued' = "t2"
    /\ UNCHANGED << url, username, password, q0, retry0,
                    authSent, nLogins, outcome, result, error, access >>

\* variant of Query429: gives up on the second 429 of a call
Query429GivesUp(s, body) ==
    /\ Branch(s, retry) = "sleep_requery"
    /\ Post(s, body)
    /\ IF nSleeps >= 1
       THEN /\ outcome' = "raised" /\ error' = "HTTPError"
            /\ pc' = "idle"
            /\ UNCHANGED << nSleeps, slept, q, retry >>
       ELSE /\ nSleeps' = nSleeps + 1
            /\ slept' = slept + SleepSecs
            /\ q' = q
            /\ retry' = 0
            /\ pc' = "query"
            /\ UNCHANGED << outcome, error >>
    /\ loginResp' = NoResp
    /\ UNCHANGED << url, username, password, headers, issued, q0, retry0,
                    authSent, nLogins, result, access >>

\* status 429: sleep, then query(q)
Query429(s, body) ==
    /\ Branch(s, retry) = "sleep_requery"
    /\ Post(s, body)
    /\ nSleeps' = nSleeps + 1
    /\ slept' = slept + SleepSecs
    /\ q' = q
    /\ retry' = 0
    /\ pc' = "query"
    /\ loginResp' = NoResp
    /\ UNCHANGED << url, username, password, headers, issued, q0, retry0,
                    authSent, nLogins, outcome, result, error, access >>

\* variant of Query403: a failed re-login is ignored and the query retried
Query403IgnoresFailure(s, body, resp) ==
    /\ Branch(s, retry) = "relogin"
    /\ Post(s, body)
    /\ LET L == Login(resp, headers)
       IN  /\ nLogins' = nLogins + 1
           /\ authSent' = [url |-> AuthUrl(url), username |-> username,
                           password |-> password]
           /\ loginResp' = resp
           /\ issued' = Granted(resp, issued)
           /\ headers' = L.headers
           /\ q' = q
           /\ retry' = 0
           /\ pc' = "query"
           /\ UNCHANGED << outcome, error >>
    /\ UNCHANGED << url, username, password, q0, retry0, nSleeps, slept,
                    result, access >>

\* variant of Query403: sleeps before the re-login
Query403Sleeps(s, body, resp) ==
    /\ Branch(s, retry) = "relogin"
    /\ Post(s, body)
    /\ nSleeps' = nSleeps + 1
    /\ slept' = slept + SleepSecs
    /\ LET L == Login(resp, headers)
       IN  /\ nLogins' = nLogins + 1
           /\ authSent' = [url |-> AuthUrl(url), username |-> username,
                           password |-> password]
           /\ loginResp' = resp
           /\ issued' = Granted(resp, issued)
           /\ headers' = L.headers
           /\ IF L.ok
              THEN /\ q' = q
                   /\ retry' = 0
                   /\ pc' = "query"
                   /\ UNCHANGED << outcome, error >>
              ELSE /\ pc' = "idle"
                   /\ outcome' = "raised"
                   /\ error' = L.err
                   /\ UNCHANGED << q, retry >>
    /\ UNCHANGED << url, username, password, q0, retry0, result, access >>

\* status 403: _login(), then query(q)
Query403(s, body, resp) ==
    /\ Branch(s, retry) = "relogin"
    /\ Post(s, body)
    /\ LET L == Login(resp, headers)
       IN  /\ nLogins' = nLogins + 1
           /\ authSent' = [url |-> AuthUrl(url), username |-> username,
                           password |-> password]
           /\ loginResp' = resp
           /\ issued' = Granted(resp, issued)
           /\ headers' = L.headers
           /\ IF L.ok
              THEN /\ q' = q
                   /\ retry' = 0
                   /\ pc' = "query"
                   /\ UNCHANGED << outcome, error >>
              ELSE /\ pc' = "idle"
                   /\ outcome' = "raised"
                   /\ error' = L.err
                   /\ UNCHANGED << q, retry >>
    /\ UNCHANGED << url, username, password, q0, retry0, nSleeps, slept,
                    result, access >>

\* status 200, 400 or 500: return Result(response.json())
QueryResult(s, body) ==
    /\ Branch(s, retry) = "result"
    /\ Post(s, body)
    /\ result' = NewResult(body)
    /\ outcome' = "result"
    /\ pc' = "idle"
    /\ loginResp' = NoResp
    /\ UNCHANGED << url, username, password, headers, issued, q, retry, q0,
                    retry0, authSent, nLogins, nSleeps, slept, error, access >>

\* variant of QueryRetry: the budget is passed on undiminished
QueryRetryKeepsBudget(s, body) ==
    /\ Branch(s, retry) = "retry"
    /\ Post(s, body)
    /\ nSleeps' = nSleeps + 1
    /\ slept' = slept + SleepSecs
    /\ q' = q
    /\ retry' = retry
    /\ pc' = "query"
    /\ loginResp' = NoResp
    /\ UNCHANGED << url, username, password, headers, issued, q0, retry0,
                    authSent, nLogins, outcome, result, error, access >>

\* any other status with retry > 0: sleep, then query(q, retry - 1)
QueryRetry(s, body) ==
    /\ Branch(s, retry) = "retry"
    /\ Post(s, body)
    /\ nSleeps' = nSleeps + 1
    /\ slept' = slept + SleepSecs
    /\ q' = q
    /\ retry' = retry - 1
    /\ pc' = "query"
    /\ loginResp' = NoResp
    /\ UNCHANGED << url, username, password, headers, issued, q0, retry0,
                    authSent, nLogins, outcome, result, error, access >>

\* any other status with retry = 0: response.raise_for_status(), and when
\* that does not raise the function ends without a return statement
QueryRaise(s, body) ==
    /\ Branch(s, retry) = "raise"
    /\ Post(s, body)
    /\ IF RaiseForStatus(s)
       THEN outcome' = "raised" /\ error' = "HTTPError"
       ELSE outcome' = "returned_none" /\ error' = ""
    /\ pc' = "idle"
    /\ loginResp' = NoResp
    /\ UNCHANGED << url, username, password, headers, issued, q, retry, q0,
                    retry0, authSent, nLogins, nSleeps, slept, result, access >>

Next ==
    \/ \E user \in {"", "alice"}, pw \in {"", "secret"}, c \in Configs,
          resp \in LoginResponses :
          Construct(user, pw, DefaultEndpoint, c, resp)
    \/ \E qq \in Queries, r \in 0..MaxRetry : QueryCall(qq, r)
    \/ \E s \in Statuses, body \in Bodies : Query429(s, body)
    \/ \E s \in Statuses, body \in Bodies, resp \in LoginResponses :
          Query403(s, body, resp)
    \/ \E s \in Statuses, body \in Bodies : QueryResult(s, body)
    \/ \E s \in Statuses, body \in Bodies : QueryRetry(s, body)
    \/ \E s \in Statuses, body \in Bodies : QueryRaise(s, body)

Spec == Init /\ [][Next]_vars

TypeOK ==
    /\ pc \in {"start", "failed", "idle", "query"}
    /\ outcome \in {"none", "result", "raised", "returned_none"}
    /\ nReq \in 0..MaxReq
    /\ retry \in 0..MaxRetry

\* ------------------------------------------- the Result wrapper on its own
PayloadKeys == {"publications", "_stats", "stats", "data", "keys"}
Names == PayloadKeys \cup {"missing", "keys_and_count"}
Pairs == {[k |-> key, v |-> val] : key \in PayloadKeys, val \in Values}
\* every dict of at most MaxKeys entries
Payloads ==
    UNION { { d \in [1..n -> Pairs] :
                \A i, j \in 1..n : i # j => d[i].k # d[j].k } : n \in 0..MaxKeys }

\* Result(data) for any payload, no client involved
InitResult ==
    /\ pc = "start"
    /\ url = "" /\ username = "" /\ password = ""
    /\ headers = << >>
    /\ issued = ""
    /\ q = "" /\ retry = 0 /\ q0 = "" /\ retry0 = 0
    /\ hist = << >>
    /\ lastBody = << >>
    /\ nReq = 0
    /\ dslSent = NoDslReq
    /\ authSent = NoAuthReq
    /\ loginResp = NoResp
    /\ ctor = NoCtor
    /\ nLogins = 0
    /\ nSleeps = 0 /\ slept = 0
    /\ outcome = "none"
    /\ result \in {NewResult(d) : d \in Payloads}
    /\ error = ""
    /\ access = NoAccess
    /\ LoopIdle /\ ChunksIdle /\ MagicIdle

\* the expression  result[key]
ItemAccess(key) ==
    /\ result.set
    /\ LET r == GetItem(result.data, key)
       IN  access' = [op |-> "getitem", name |-> key, raised |-> r.raised, val |-> r.val,
                      pairs |-> << >>]
    /\ UNCHANGED result
    /\ UNCHANGED dslVars
    /\ UNCHANGED << loopVars, chunkVars, magicVars >>

\* the expression  result.name
AttrAccess(name) ==
    /\ result.set
    /\ LET r == GetAttr(result.data, name)
       IN  access' = [op |-> "getattr", name |-> name, raised |-> r.raised, val |-> r.val,
                      pairs |-> << >>]
    /\ UNCHANGED result
    /\ UNCHANGED dslVars
    /\ UNCHANGED << loopVars, chunkVars, magicVars >>

\* the call  result.keys_and_count()
CountAccess ==
    /\ result.set
    /\ LET r == KeysAndCount(result.data)
       IN  access' = [op |-> "keys_and_count", name |-> "", raised |-> r.raised,
                      val |-> PyFalse, pairs |-> r.pairs]
    /\ UNCHANGED result
    /\ UNCHANGED dslVars
    /\ UNCHANGED << loopVars, chunkVars, magicVars >>

NextResult ==
    \/ \E key \in Names : ItemAccess(key)
    \/ \E name \in Names : AttrAccess(name)
    \/ CountAccess

SpecResult == InitResult /\ [][NextResult]_vars

\* ------------------------------------------------------- the loop executor
\* page size and server total of a loop query: every small combination, and
\* page size 500 with totals 42, 500 and 1237
LoopInputs ==
    ((1..MaxPage) \X (0..MaxRecords)) \cup ({500} \X {42, 500, 1237})

Min(a, b) == IF a < b THEN a ELSE b

\* records in the page the server returns for "limit l skip k"
PageCount(l, k, total) == IF total - k <= 0 THEN 0 ELSE Min(l, total - k)

RECURSIVE SumPages(_)
SumPages(pages) ==
    IF pages = << >> THEN 0 ELSE pages[1].n + SumPages(Tail(pages))

\* pages concatenated in request order
Merge(pages) == [set |-> TRUE, pages |-> pages, count |-> SumPages(pages)]

\* variant of LoopDone: only an empty page ends the loop
LoopDoneOnEmpty(n, l, k, total, decl) == n = 0

\* termination: a short page, or the declared total reached
LoopDone(n, l, k, total, decl) == n < l \/ (decl /\ k + n >= total)

InitLoop ==
    /\ pc = "start"
    /\ url = "" /\ username = "" /\ password = ""
    /\ headers = << >>
    /\ issued = ""
    /\ q = "" /\ retry = 0 /\ q0 = "" /\ retry0 = 0
    /\ hist = << >>
    /\ lastBody = << >>
    /\ nReq = 0
    /\ dslSent = NoDslReq
    /\ authSent = NoAuthReq
    /\ loginResp = NoResp
    /\ ctor = NoCtor
    /\ nLogins = 0
    /\ nSleeps = 0 /\ slept = 0
    /\ outcome = "none"
    /\ result = NoResult
    /\ error = ""
    /\ access = NoAccess
    /\ ChunksIdle /\ MagicIdle
    /\ lpc = "running"
    /\ \E in \in LoopInputs : pageSize = in[1] /\ srvTotal = in[2]
    /\ declared \in BOOLEAN
    /\ offset = 0 /\ accumulated = << >> /\ done = FALSE
    /\ requests = << >> /\ merged = NoMerged

\* variant of LoopPageFails: the pages received so far are returned
LoopPageFailsPartial ==
    /\ lpc = "running" /\ ~done
    /\ requests' = Append(requests, [limit |-> pageSize, skip |-> offset])
    /\ lpc' = "returned"
    /\ merged' = Merge(accumulated)
    /\ done' = TRUE
    /\ UNCHANGED << accumulated, pageSize, srvTotal, declared, offset >>
    /\ UNCHANGED << dslVars, result, access, chunkVars, magicVars >>

\* one iteration whose page query succeeds
LoopPage ==
    /\ lpc = "running" /\ ~done
    /\ requests' = Append(requests, [limit |-> pageSize, skip |-> offset])
    /\ LET n == PageCount(pageSize, offset, srvTotal)
           acc == Append(accumulated, [skip |-> offset, n |-> n])
       IN  /\ accumulated' = acc
           /\ IF LoopDone(n, pageSize, offset, srvTotal, declared)
              THEN /\ done' = TRUE
                   /\ lpc' = "returned"
                   /\ merged' = Merge(acc)
                   /\ UNCHANGED offset
              ELSE /\ offset' = offset + pageSize
                   /\ UNCHANGED << done, lpc, merged >>
    /\ UNCHANGED << pageSize, srvTotal, declared >>
    /\ UNCHANGED << dslVars, result, access, chunkVars, magicVars >>

\* one iteration whose page query raises: the loop aborts with that error
LoopPageFails ==
    /\ lpc = "running" /\ ~done
    /\ requests' = Append(requests, [limit |-> pageSize, skip |-> offset])
    /\ lpc' = "raised"
    /\ accumulated' = << >>
    /\ merged' = NoMerged
    /\ UNCHANGED << pageSize, srvTotal, declared, offset, done >>
    /\ UNCHANGED << dslVars, result, access, chunkVars, magicVars >>

NextLoop == LoopPage \/ LoopPageFails

SpecLoop == InitLoop /\ [][NextLoop]_vars

\* ------------------------------------------------------------- chunks_of
Elems == {1, 2}
ChunkInputs == UNION { [1..n -> Elems] : n \in 0..MaxLen }

\* list(islice(it, size)) for an iterator that has handed out pos elements
Islice(data, pos, size) == SubSeq(data, pos + 1, Min(pos + size, Len(data)))

InitChunks ==
    /\ pc = "start"
    /\ url = "" /\ username = "" /\ password = ""
    /\ headers = << >>
    /\ issued = ""
    /\ q = "" /\ retry = 0 /\ q0 = "" /\ retry0 = 0
    /\ hist = << >>
    /\ lastBody = << >>
    /\ nReq = 0
    /\ dslSent = NoDslReq
    /\ authSent = NoAuthReq
    /\ loginResp = NoResp
    /\ ctor = NoCtor
    /\ nLogins = 0
    /\ nSleeps = 0 /\ slept = 0
    /\ outcome = "none"
    /\ result = NoResult
    /\ error = ""
    /\ access = NoAccess
    /\ LoopIdle /\ MagicIdle
    /\ cPc = "start"
    /\ cData \in ChunkInputs
    /\ cSize \in 0..MaxSize
    /\ cPos = 0 /\ cChunk = << >> /\ cOut = << >>

\* the generator starts: it = iter(data); chunk = list(islice(it, size))
ChunksBegin ==
    /\ cPc = "start"
    /\ cChunk' = Islice(cData, cPos, cSize)
    /\ cPos' = cPos + Len(cChunk')
    /\ cPc' = "loop"
    /\ UNCHANGED << cData, cSize, cOut >>
    /\ UNCHANGED << dslVars, result, access, loopVars, magicVars >>

\* variant of ChunksYield: the chunk after the one yielded is skipped
ChunksYieldSkips ==
    /\ cPc = "loop" /\ cChunk # << >>
    /\ cOut' = Append(cOut, cChunk)
    /\ cChunk' = Islice(cData, cPos + cSize, cSize)
    /\ cPos' = Min(cPos + cSize, Len(cData)) + Len(cChunk')
    /\ UNCHANGED << cData, cSize, cPc >>
    /\ UNCHANGED << dslVars, result, access, loopVars, magicVars >>

\* while chunk: yield chunk; chunk = list(islice(it, size))
ChunksYield ==
    /\ cPc = "loop" /\ cChunk # << >>
    /\ cOut' = Append(cOut, cChunk)
    /\ cChunk' = Islice(cData, cPos, cSize)
    /\ cPos' = cPos + Len(cChunk')
    /\ UNCHANGED << cData, cSize, cPc >>
    /\ UNCHANGED << dslVars, result, access, loopVars, magicVars >>

\* the while condition is false: the generator is exhausted
ChunksStop ==
    /\ cPc = "loop" /\ cChunk = << >>
    /\ cPc' = "done"
    /\ UNCHANGED << cData, cSize, cPos, cChunk, cOut >>
    /\ UNCHANGED << dslVars, result, access, loopVars, magicVars >>

NextChunks == ChunksBegin \/ ChunksYield \/ ChunksStop

SpecChunks == InitChunks /\ [][NextChunks]_vars

\* ------------------------------------------------------- notebook magics
Lines == {"search publications return publications", "search grants",
          "describe publications"}
Cells == {"", "search patents return patents", "describe schema"}

\* line_is_search_query: the text starts with "search"
LineIsSearchQuery(t) ==
    t \in {"search publications return publications", "search grants",
            "search patents return patents"}

\* line_add_lazy_return: a search without a return clause gets one
LineAddLazyReturn(t) ==
    IF t = "search grants" THEN "search grants return grants" ELSE t

\* line_add_lazy_describe: "describe <source>" becomes "describe source <source>"
LineAddLazyDescribe(t) ==
    IF t = "describe publications" THEN "describe source publications" ELSE t

PyNone == [kind |-> "none", text |-> "", loop |-> FALSE, run |-> 0]

InitMagic ==
    /\ pc = "start"
    /\ url = "" /\ username = "" /\ password = ""
    /\ headers = << >>
    /\ issued = ""
    /\ q = "" /\ retry = 0 /\ q0 = "" /\ retry0 = 0
    /\ hist = << >>
    /\ lastBody = << >>
    /\ nReq = 0
    /\ dslSent = NoDslReq
    /\ authSent = NoAuthReq
    /\ loginResp = NoResp
    /\ ctor = NoCtor
    /\ nLogins = 0
    /\ nSleeps = 0 /\ slept = 0
    /\ outcome = "none"
    /\ result = NoResult
    /\ error = ""
    /\ access = NoAccess
    /\ LoopIdle /\ ChunksIdle
    /\ loggedIn \in BOOLEAN
    /\ userNs = NoValue /\ runNo = 0 /\ run = NoRun

\* the body the four magics share: _handle_login, the choice between cell
\* and line, the search-query test of the dataframe magics, _handle_query
\* (which lets an exception of the executor pass), as_dataframe, and the
\* assignment to user_ns[results_var]
RunMagic(cmd, line, cell, ok, loop, df) ==
    /\ runNo < MaxRuns
    /\ runNo' = runNo + 1
    /\ LET text == IF cell # "" THEN cell ELSE line
           sentText == LineAddLazyDescribe(LineAddLazyReturn(text))
           base == [cmd |-> cmd, line |-> line, cell |-> cell, text |-> "",
                    dispatched |-> "", loop |-> loop, sent |-> FALSE,
                    raised |-> FALSE, returned |-> PyNone]
           data == [kind |-> IF df THEN "dataframe" ELSE "dataset",
                    text |-> sentText, loop |-> loop, run |-> runNo + 1]
       IN  IF ~loggedIn
           THEN run' = base /\ UNCHANGED userNs
           ELSE IF df /\ ~LineIsSearchQuery(text)
           THEN run' = [base EXCEPT !.text = text] /\ UNCHANGED userNs
           ELSE IF ~ok
           THEN /\ run' = [base EXCEPT !.text = text, !.dispatched = sentText,
                                       !.sent = TRUE, !.raised = TRUE]
                /\ UNCHANGED userNs
           ELSE /\ run' = [base EXCEPT !.text = text, !.dispatched = sentText,
                                       !.sent = TRUE, !.returned = data]
                /\ userNs' = data
    /\ UNCHANGED loggedIn
    /\ UNCHANGED << dslVars, result, access, loopVars, chunkVars >>

\* %dsl / %%dsl
dsl(line, cell, ok) == RunMagic("dsl", line, cell, ok, FALSE, FALSE)
\* %dsldf / %%dsldf
dsldf(line, cell, ok) == RunMagic("dsldf", line, cell, ok, FALSE, TRUE)
\* %dslloop / %%dslloop
dslloop(line, cell, ok) == RunMagic("dslloop", line, cell, ok, TRUE, FALSE)
\* %dslloopdf / %%dslloopdf
dslloopdf(line, cell, ok) == RunMagic("dslloopdf", line, cell, ok, TRUE, TRUE)

NextMagic ==
    \/ \E line \in Lines, cell \in Cells, ok \in BOOLEAN : dsl(line, cell, ok)
    \/ \E line \in Lines, cell \in Cells, ok \in BOOLEAN : dsldf(line, cell, ok)
    \/ \E line \in Lines, cell \in Cells, ok \in BOOLEAN : dslloop(line, cell, ok)
    \/ \E line \in Lines, cell \in Cells, ok \in BOOLEAN : dslloopdf(line, cell, ok)

SpecMagic == InitMagic /\ [][NextMagic]_vars

\* ================================================================ claims
Last(seq) == seq[Len(seq)]
Posted == nReq' = nReq + 1          \* this step posted one DSL request
Expected == {200, 400, 500, 429, 403}
AllEqual(seq, s) == \A i \in 1..Len(seq) : seq[i] = s

\* C1: whenever query returns a Result, the last status received is 200,
\* 400 or 500 and the Result's data is exactly the decoded body of that last
\* response; a body that came with any other status is never returned.
C1_PayloadIsLastBody ==
    outcome = "result" =>
        /\ pc = "idle"
        /\ hist # << >>
        /\ Last(hist) \in {200, 400, 500}
        /\ result.set
        /\ result.data = lastBody

C1_Witness ==
    /\ outcome = "result"
    /\ Len(hist) >= 2
    /\ hist[1] = 403
    /\ result.data = BodyPubs

\* C2: a 403 response causes exactly one POST to the auth endpoint and no
\* sleep, the request that follows carries the identical query string, and a
\* 200 answer to that request returns Result(body), the Result a direct 200
\* with the same body returns.
C2_ReloginOnceThenSame ==
    [][ /\ (Posted /\ Last(hist') = 403) =>
              /\ nLogins' = nLogins + 1
              /\ nSleeps' = nSleeps /\ slept' = slept
              /\ authSent' = [url |-> AuthUrl(url), username |-> username,
                              password |-> password]
              /\ (pc' = "query" => q' = q0)
        /\ (Posted /\ hist # << >> /\ Last(hist) = 403) =>
              /\ dslSent'.data = dslSent.data
              /\ dslSent'.data = q0
              /\ (Last(hist') = 200 =>
                     /\ outcome' = "result"
                     /\ result' = NewResult(lastBody')
                     /\ nLogins' = nLogins /\ nSleeps' = nSleeps)
        /\ (outcome' = "result" /\ hist' = << 403, 200 >>) =>
              (nLogins' = 1 /\ nSleeps' = 0 /\ nReq' = 2)
      ]_vars

C2_Witness ==
    /\ outcome = "result"
    /\ hist = << 403, 200 >>
    /\ nLogins = 1
    /\ result.data = BodyPubs

\* C3: every 429 is followed by one 30-second sleep and a new request with
\* the identical query string, without re-login and without giving up; k
\* 429s followed by 200/400/500 give k+1 requests, k sleeps and the Result
\* of the last response.
C3_RateLimitedAlwaysRetried ==
    [][ /\ (Posted /\ Last(hist') = 429) =>
              /\ nSleeps' = nSleeps + 1
              /\ slept' = slept + 30
              /\ nLogins' = nLogins
              /\ headers' = headers
              /\ pc' = "query" /\ outcome' = "none"
              /\ q' = q0
        /\ (Posted /\ hist # << >> /\ Last(hist) = 429) =>
              (dslSent'.data = dslSent.data /\ dslSent'.data = q0)
        /\ (Posted /\ AllEqual(hist, 429) /\ Last(hist') \in {200, 400, 500}) =>
              /\ outcome' = "result"
              /\ result' = NewResult(lastBody')
              /\ nReq' = Len(hist) + 1
              /\ nSleeps' = Len(hist)
              /\ slept' = 30 * Len(hist)
              /\ nLogins' = 0
      ]_vars

C3_Witness ==
    /\ outcome = "result"
    /\ hist = << 429, 429, 429, 200 >>
    /\ nSleeps = 3 /\ nReq = 4

\* C4: when every request of a call with budget n gets the same unexpected
\* error status, the call raises after exactly n+1 requests and n sleeps of
\* 30 seconds, and not before.
C4_RaisesAfterBudget ==
    \A s \in Statuses \ Expected :
        (RaiseForStatus(s) /\ hist # << >> /\ AllEqual(hist, s)) =>
            /\ nReq = Len(hist)
            /\ Len(hist) <= retry0 + 1
            /\ (Len(hist) <= retry0 =>
                   pc = "query" /\ outcome = "none" /\ nSleeps = Len(hist))
            /\ (Len(hist) = retry0 + 1 =>
                   /\ pc = "idle" /\ outcome = "raised" /\ error = "HTTPError"
                   /\ nSleeps = retry0 /\ slept = 30 * retry0)

C4_Witness ==
    /\ outcome = "raised"
    /\ retry0 = 2
    /\ hist = << 503, 503, 503 >>
    /\ nSleeps = 2

\* C5: a call that ends on a status outside {200, 400, 500, 429, 403} with
\* no budget left ends by raising the transport error, and every call that
\* ends either raised or returned a Result.
C5_OtherStatusRaises ==
    (pc = "idle" /\ hist # << >>) =>
        /\ outcome \in {"result", "raised"}
        /\ (Last(hist) \notin Expected => outcome = "raised" /\ error = "HTTPError")

\* C6: a 400 or 500 response ends the call with a Result at once: no sleep,
\* no re-login, no error, and no request follows it, whatever budget is left.
C6_AppErrorNotRetried ==
    [][ /\ (Posted /\ Last(hist') \in {400, 500}) =>
              /\ pc' = "idle"
              /\ outcome' = "result"
              /\ result' = NewResult(lastBody')
              /\ error' = ""
              /\ nSleeps' = nSleeps /\ slept' = slept
              /\ nLogins' = nLogins
              /\ headers' = headers
        /\ (hist # << >> /\ Last(hist) \in {400, 500}) => ~Posted
      ]_vars

C6_Witness ==
    /\ outcome = "result"
    /\ hist = << 500 >>
    /\ retry0 = 2
    /\ result.data = BodyErr

\* C7: a client exists only after a granted login, every DSL request carries
\* "JWT " followed by the token of the latest granted login, and a granted
\* re-login replaces the stored token by the new one alone.
C7_RequestsCarryLatestToken ==
    [][ /\ (pc' \in {"idle", "query"}) =>
              (issued' \in Tokens /\ headers' = << "JWT ", issued' >>)
        /\ (pc' \in {"start", "failed"}) => headers' = << >>
        /\ (pc \in {"start", "failed"} /\ pc' = "idle") =>
              (loginResp'.status = 200 /\ HasKey(loginResp'.body, "token"))
        /\ Posted =>
              (dslSent'.headers = << "JWT ", issued >> /\ issued \in Tokens)
        /\ (loginResp' # NoResp /\ loginResp'.status = 200
              /\ HasKey(loginResp'.body, "token")) =>
              headers' = << "JWT ", Get(loginResp'.body, "token") >>
      ]_vars

C7_Witness ==
    /\ pc = "query"
    /\ Len(hist) >= 2
    /\ hist[1] = 403 /\ hist[2] = 403
    /\ dslSent.headers # << >>
    /\ dslSent.headers # headers
    /\ headers = << "JWT ", issued >>

\* C8: login stores "JWT " + token when the auth endpoint answers without an
\* error status and with a token field; it raises when the status is an
\* error status and when the token field is missing, and then the stored
\* token is what it was before.
C8_LoginStoresOrFails ==
    [][ loginResp' # NoResp =>
          IF loginResp'.status < 400 /\ HasKey(loginResp'.body, "token")
          THEN /\ headers' = << "JWT ", Get(loginResp'.body, "token") >>
               /\ error' = ""
               /\ pc' \in {"idle", "query"}
               /\ outcome' # "raised"
          ELSE /\ headers' = headers
               /\ error' = (IF loginResp'.status >= 400 THEN "HTTPError" ELSE "KeyError")
               /\ IF pc = "query" THEN pc' = "idle" /\ outcome' = "raised"
                                  ELSE pc' = "failed"
      ]_vars

C8_Witness ==
    /\ loginResp = [status |-> 200, body |-> << >>]
    /\ outcome = "raised"
    /\ error = "KeyError"
    /\ headers = << "JWT ", "t2" >>

\* C9 as stated: for every name other than stats, result.name equals
\* result[name], also for names of the wrapper's own members; result.stats
\* equals result["_stats"].
C9_AttrEqualsItem ==
    access.op = "getattr" =>
        LET key == IF access.name = "stats" THEN "_stats" ELSE access.name
        IN  /\ ~access.raised
            /\ access.val = (IF HasKey(result.data, key)
                             THEN Get(result.data, key) ELSE PyFalse)

\* C9 amended: result.name equals result[name] for every name that is not a
\* member of the wrapper object (data, keys, keys_and_count), with stats
\* redirected to the _stats key; for a member name the member is returned,
\* not the payload entry.
C9_AttrEqualsItemUnlessMember ==
    access.op = "getattr" =>
        LET key == IF access.name = "stats" THEN "_stats" ELSE access.name
        IN  /\ ~access.raised
            /\ (access.name \notin {"data", "keys", "keys_and_count"} =>
                   access.val = (IF HasKey(result.data, key)
                                 THEN Get(result.data, key) ELSE PyFalse))
            /\ (access.name \in {"data", "keys", "keys_and_count"} =>
                   access.val.ref = access.name)

C9_Witness ==
    /\ access.op = "getattr"
    /\ access.name = "stats"
    /\ HasKey(result.data, "stats")
    /\ HasKey(result.data, "_stats")
    /\ access.val = Get(result.data, "_stats")
    /\ access.val # Get(result.data, "stats")

\* C10: result[key] is the stored value for a present key and False for an
\* absent key; it never raises and leaves the payload as it was.
C10_ItemOrFalse ==
    [][ access'.op = "getitem" =>
          /\ ~access'.raised
          /\ (HasKey(result.data, access'.name) =>
                 \E i \in 1..Len(result.data) :
                    result.data[i].k = access'.name /\ access'.val = result.data[i].v)
          /\ (~HasKey(result.data, access'.name) => access'.val = PyFalse)
          /\ result' = result
      ]_vars

C10_Witness ==
    /\ access.op = "getitem"
    /\ Len(result.data) >= 1
    /\ ~HasKey(result.data, access.name)
    /\ access.val = PyFalse

\* C11: keys_and_count() returns, in key order, one (key, count) pair for
\* each key whose value is a sequence and no pair for any other key.
SequenceEntries(data) == SelectSeq(data, LAMBDA e : e.v.type = "list")
C11_CountsOnlySequences ==
    access.op = "keys_and_count" =>
        /\ ~access.raised
        /\ access.pairs = [i \in 1..Len(SequenceEntries(result.data)) |->
                              [k |-> SequenceEntries(result.data)[i].k,
                               n |-> SequenceEntries(result.data)[i].v.n]]

\* C12: construction fails with a configuration error and without any HTTP
\* request when user and password are not both given and the profile is
\* missing or lacks url, login or password; otherwise exactly one login
\* request is sent, with the resolved endpoint, username and password.
C12_ResolveBeforeNetwork ==
    [][ ctor' # NoCtor =>
          LET a == ctor'
              explicit == a.user # "" /\ a.pw # ""
              profileOk == /\ a.c.hasSection
                           /\ \A f \in {"url", "login", "password"} :
                                 \E i \in 1..Len(a.c.section) : a.c.section[i].k = f
              field(f) == a.c.section[CHOOSE i \in 1..Len(a.c.section) :
                                         a.c.section[i].k = f].v
          IN  IF ~explicit /\ ~profileOk
              THEN /\ pc' = "failed"
                   /\ error' = "KeyError"
                   /\ nLogins' = 0
                   /\ loginResp' = NoResp
                   /\ authSent' = authSent
                   /\ nReq' = 0 /\ dslSent' = NoDslReq
              ELSE /\ nLogins' = 1
                   /\ nReq' = 0 /\ dslSent' = NoDslReq
                   /\ loginResp' # NoResp
                   /\ authSent' =
                        IF explicit
                        THEN [url |-> << a.endpoint, "/api/auth.json" >>,
                              username |-> a.user, password |-> a.pw]
                        ELSE [url |-> << field("url"), "/api/auth.json" >>,
                              username |-> field("login"),
                              password |-> field("password")]
      ]_vars

C12_Witness ==
    /\ pc = "failed"
    /\ error = "KeyError"
    /\ ctor.user = "alice" /\ ctor.pw = ""
    /\ ctor.c.hasSection /\ ctor.c.section = PartialSection
    /\ nLogins = 0
    /\ authSent = NoAuthReq

\* C13: page requests have the fixed size p and the offsets 0, p, 2p, ...;
\* every page before the last is full, the loop stops after the first short
\* page or when the declared total is reached, and the merged result is the
\* pages in request order; totals 1237 and 42 with p = 500 take 3 requests
\* (offsets 0, 500, 1000) and 1 request.
C13_PagesInOrderUntilShort ==
    /\ \A i \in 1..Len(requests) :
          requests[i] = [limit |-> pageSize, skip |-> (i - 1) * pageSize]
    /\ lpc \in {"running", "returned"} =>
          /\ Len(accumulated) = Len(requests)
          /\ \A i \in 1..Len(accumulated) :
                /\ accumulated[i].skip = requests[i].skip
                /\ (i < Len(accumulated) \/ lpc = "running") =>
                      /\ accumulated[i].n = pageSize
                      /\ ~(declared /\ accumulated[i].skip + accumulated[i].n >= srvTotal)
    /\ lpc = "returned" =>
          /\ accumulated # << >>
          /\ LET last == accumulated[Len(accumulated)]
             IN  last.n < pageSize \/ (declared /\ last.skip + last.n >= srvTotal)
          /\ merged.set
          /\ merged.pages = accumulated
          /\ merged.count = srvTotal
    /\ (lpc = "returned" /\ pageSize = 500 /\ srvTotal = 1237) =>
          /\ requests = << [limit |-> 500, skip |-> 0], [limit |-> 500, skip |-> 500],
                           [limit |-> 500, skip |-> 1000] >>
          /\ merged.count = 1237
    /\ (lpc = "returned" /\ pageSize = 500 /\ srvTotal = 42) =>
          /\ requests = << [limit |-> 500, skip |-> 0] >>
          /\ merged.count = 42

C13_Witness ==
    /\ lpc = "returned"
    /\ pageSize = 500 /\ srvTotal = 1237
    /\ Len(requests) = 3
    /\ merged.pages = << [skip |-> 0, n |-> 500], [skip |-> 500, n |-> 500],
                         [skip |-> 1000, n |-> 237] >>

\* C14: when the query of any page fails, the loop ends raised with no
\* merged result, the pages received before are dropped, and no page
\* request follows.
C14_FailureDiscardsPages ==
    [][ /\ (lpc = "running" /\ Len(requests') = Len(requests) + 1
              /\ Len(accumulated') # Len(accumulated) + 1) =>
              (lpc' = "raised" /\ merged' = NoMerged /\ accumulated' = << >>)
        /\ lpc = "raised" =>
              (requests' = requests /\ merged' = NoMerged /\ lpc' = "raised")
        /\ merged'.set => (lpc' = "returned" /\ merged'.count = srvTotal)
      ]_vars

C14_Witness ==
    /\ lpc = "raised"
    /\ Len(requests) = 3
    /\ accumulated = << >>
    /\ ~merged.set

\* C15: a magic run in an authenticated session leaves in dsl_last_results
\* the value this run produced and dispatches the cell text when a cell is
\* given, otherwise the line; without an authenticated session nothing is
\* dispatched and the variable keeps its value.
C15_LastResultsIsThisRun ==
    [][ runNo' = runNo + 1 =>
          IF loggedIn
          THEN /\ run'.text = (IF run'.cell # "" THEN run'.cell ELSE run'.line)
               /\ ~run'.raised =>
                     /\ run'.sent
                     /\ userNs' = run'.returned
                     /\ userNs'.run = runNo'
                     /\ userNs'.kind \in {"dataset", "dataframe"}
          ELSE ~run'.sent /\ userNs' = userNs
      ]_vars

\* C16: for size >= 1 the chunks yielded by chunks_of concatenate to the
\* input in order, every chunk but the last has size elements, the last has
\* between 1 and size, none is empty, and an empty input yields none.
RECURSIVE Concat(_)
Concat(ss) == IF ss = << >> THEN << >> ELSE ss[1] \o Concat(Tail(ss))
C16_ChunksPartitionInput ==
    cSize >= 1 =>
        /\ \A i \in 1..Len(cOut) :
              /\ Len(cOut[i]) >= 1 /\ Len(cOut[i]) <= cSize
              /\ (i < Len(cOut) \/ (cPc = "loop" /\ cChunk # << >>)) => Len(cOut[i]) = cSize
        /\ Concat(cOut) = SubSeq(cData, 1, Len(Concat(cOut)))
        /\ cPc = "done" =>
              /\ Concat(cOut) = cData
              /\ (cData = << >> => cOut = << >>)
              /\ Len(cOut) * cSize >= Len(cData)
              /\ Len(cOut) * cSize < Len(cData) + cSize

C16_Witness ==
    /\ cPc = "done"
    /\ cSize = 3
    /\ Len(cData) = 4
    /\ Len(cOut) = 2
    /\ Len(cOut[2]) = 1

\* C17: the retry budget is decremented only by retries of unexpected
\* statuses and is left as it is by a 429 or 403 re-execution, so a call
\* with budget n that raises on an unexpected status has seen n + 1 of them.
CountOther(h) == Cardinality({i \in 1..Len(h) : h[i] \notin Expected})
C17_BudgetGovernsCall ==
    [][ /\ (Posted /\ Last(hist') \in {429, 403} /\ pc' = "query") => retry' = retry
        /\ (Posted /\ Last(hist') \notin Expected /\ pc' = "query") => retry' = retry - 1
        /\ (Posted /\ Last(hist') \notin Expected /\ outcome' = "raised") =>
              CountOther(hist') = retry0 + 1
      ]_vars

\* C18: a call whose every request is answered 403 re-logs in once and
\* re-executes once: at most one re-login and two requests, and it has ended
\* after the second request.
C18_SingleReloginRetry ==
    (hist # << >> /\ AllEqual(hist, 403)) =>
        /\ nLogins <= 1
        /\ nReq <= 2
        /\ (nReq = 2 => pc = "idle")

\* C19: when the re-login after a 403 fails, the call raises that error at
\* once: no sleep, no Result, the stored token as before, and no further
\* request, whatever budget is left.
C19_FailedReloginRaises ==
    [][ /\ (Posted /\ Last(hist') = 403
              /\ ~(loginResp'.status < 400 /\ HasKey(loginResp'.body, "token"))) =>
              /\ pc' = "idle"
              /\ outcome' = "raised"
              /\ error' = (IF loginResp'.status >= 400 THEN "HTTPError" ELSE "KeyError")
              /\ nLogins' = nLogins + 1
              /\ nSleeps' = nSleeps /\ slept' = slept
              /\ result' = NoResult
              /\ headers' = headers
        /\ (outcome = "raised" /\ hist # << >> /\ Last(hist) = 403) => ~Posted
      ]_vars

C19_Witness ==
    /\ outcome = "raised"
    /\ hist = << 403 >>
    /\ retry0 = 2
    /\ loginResp.status = 401
    /\ headers = << "JWT ", issued >>
    /\ nSleeps = 0
    /\ ~result.set

\* C20: inside query the stored token changes only in the step that handles
\* a 403 and whose re-login is granted; a step handling any other status
\* keeps it; endpoint, username, password and the query string sent never
\* change once the client exists.
C20_TokenWrittenOnlyByLogin ==
    [][ /\ pc \in {"idle", "query"} =>
              (url' = url /\ username' = username /\ password' = password)
        /\ (pc \in {"idle", "query"} /\ headers' # headers) =>
              /\ Posted /\ Last(hist') = 403
              /\ loginResp'.status = 200 /\ HasKey(loginResp'.body, "token")
        /\ (Posted /\ Last(hist') # 403) => (headers' = headers /\ loginResp' = NoResp)
        /\ Posted =>
              /\ dslSent'.data = q0
              /\ dslSent'.url = << url, "/api/dsl.json" >>
              /\ q' = q /\ q0' = q0
      ]_vars

C20_Witness ==
    /\ pc = "query"
    /\ hist = << 403, 403, 429 >>
    /\ nLogins = 2
    /\ dslSent.headers = headers
    /\ headers = << "JWT ", "t2" >>

\* C21: with every re-login granted, a query call ends, and ends with a
\* Result or a raised error; it is still running only while the unexpected
\* statuses received since the last 429 or 403 are within the caller's
\* budget, it raises only once that budget is used up, and its retries of
\* unexpected statuses never exceed the budget.
RECURSIVE TrailingOther(_)
TrailingOther(h) ==
    IF h = << >> \/ h[Len(h)] \in Expected THEN 0
    ELSE 1 + TrailingOther(SubSeq(h, 1, Len(h) - 1))
Count429(h) == Cardinality({i \in 1..Len(h) : h[i] = 429})
C21_EndsWithResultOrRaise ==
    /\ pc = "query" => TrailingOther(hist) <= retry0
    /\ nSleeps - Count429(hist) <= retry0
    /\ (pc = "idle" /\ hist # << >> /\ ~(outcome = "raised" /\ Last(hist) = 403)) =>
          /\ outcome \in {"result", "raised"}
          /\ (outcome = "raised" => CountOther(hist) = retry0 + 1)

====
